---- MODULE Spec2Model ----
(***************************************************************************)
(* Model of src/main.py: the Progress Store (save_progress,               *)
(* load_progress), the Recipient Validator (validate_user), the Retry      *)
(* Policy (send_message_with_retry) and the Campaign Driver                *)
(* (send_bulk_messages) of TelegramBulkSender.                             *)
(*                                                                         *)
(* The external Telegram client, the file system and the interrupt signal  *)
(* are the environment: every result they can give is a nondeterministic   *)
(* choice of the action that makes the call.                               *)
(***************************************************************************)
EXTENDS Integers, Sequences, FiniteSets, TLC

\* ------------------------------------------------------------------ bounds
\* longest input list with repeated identifiers
MaxUsers == 2
\* longest input list of distinct identifiers (crosses two checkpoints)
MaxLong == 25
\* largest Config.max_retries explored
MaxRetries == 2
\* errors the environment (client, storage) raises in one run
MaxFaults == 2

\* ------------------------------------------------------- program constants
\* Config.message_delay
message_delay == 60
\* the fixed delay before a retry after a generic error
retry_delay == 5
\* "Save progress every 10 messages"
save_every == 10

\* ------------------------------------------------------------------- data
Ids == {"a", "b"}

\* the waits a FloodWaitError can demand (e.seconds)
FloodWaits == {3, 7}

None == <<>>
Some(s) == <<s>>

\* datetime.now().isoformat(): the text of a clock reading
isoformat(t) == ToString(t)

\* the dict built at the head of send_message_with_retry
NewResult(user_identifier, t) ==
  [user |-> user_identifier, status |-> "failed", error |-> None,
   timestamp |-> isoformat(t)]

\* ------------------------------------------------------------------- JSON
\* A file's text is a sequence of tokens: string literals (q = TRUE) and
\* punctuation or null (q = FALSE).
Lit(s) == [q |-> TRUE, s |-> s]
Pun(c) == [q |-> FALSE, s |-> c]

RECURSIVE JoinComma(_)
JoinComma(parts) ==
  IF Len(parts) = 0 THEN <<>>
  ELSE IF Len(parts) = 1 THEN parts[1]
  ELSE parts[1] \o <<Pun(",")>> \o JoinComma(Tail(parts))

DumpList(parts) == <<Pun("[")>> \o JoinComma(parts) \o <<Pun("]")>>

DumpOptional(e) == IF e = None THEN <<Pun("null")>> ELSE <<Lit(e[1])>>

DumpRecord(r) ==
  <<Pun("{")>>
  \o <<Lit("user"), Pun(":"), Lit(r.user), Pun(",")>>
  \o <<Lit("status"), Pun(":"), Lit(r.status), Pun(",")>>
  \o <<Lit("error"), Pun(":")>> \o DumpOptional(r.error) \o <<Pun(",")>>
  \o <<Lit("timestamp"), Pun(":"), Lit(r.timestamp)>>
  \o <<Pun("}")>>

\* json.dump(sent_users, f)
dump_sent(sent) == DumpList([k \in 1..Len(sent) |-> <<Lit(sent[k])>>])

\* json.dump(failed_users, f)
dump_failed(failed) == DumpList([k \in 1..Len(failed) |-> DumpRecord(failed[k])])

Bad == [ok |-> FALSE, val |-> <<>>]
Good(v) == [ok |-> TRUE, val |-> v]

IsLit(text, p) == p <= Len(text) /\ text[p].q
IsPun(text, p, c) == p <= Len(text) /\ ~text[p].q /\ text[p].s = c
IsKey(text, p, k) == IsLit(text, p) /\ text[p].s = k /\ IsPun(text, p + 1, ":")

\* the items collected in reverse
RECURSIVE ParseStrItems_reversed(_, _, _)
ParseStrItems_reversed(text, p, acc) ==
  IF ~IsLit(text, p) THEN Bad
  ELSE IF IsPun(text, p + 1, "]")
       THEN IF p + 1 = Len(text) THEN Good(<<text[p].s>> \o acc) ELSE Bad
  ELSE IF IsPun(text, p + 1, ",")
       THEN ParseStrItems_reversed(text, p + 2, <<text[p].s>> \o acc)
  ELSE Bad

\* the list items from position p on, up to the closing bracket that must
\* end the text
RECURSIVE ParseStrItems(_, _, _)
ParseStrItems(text, p, acc) ==
  IF ~IsLit(text, p) THEN Bad
  ELSE IF IsPun(text, p + 1, "]")
       THEN IF p + 1 = Len(text) THEN Good(Append(acc, text[p].s)) ELSE Bad
  ELSE IF IsPun(text, p + 1, ",")
       THEN ParseStrItems(text, p + 2, Append(acc, text[p].s))
  ELSE Bad

\* json.load of the sent file
load_sent(text) ==
  IF ~IsPun(text, 1, "[") THEN Bad
  ELSE IF IsPun(text, 2, "]") THEN (IF Len(text) = 2 THEN Good(<<>>) ELSE Bad)
  ELSE ParseStrItems(text, 2, <<>>)

\* tokens of one outcome object
RecordLen == Len(DumpRecord(NewResult("", 0)))

\* one outcome object starting at position p
ParseRecord(text, p) ==
  IF /\ IsPun(text, p, "{")
     /\ IsKey(text, p + 1, "user") /\ IsLit(text, p + 3) /\ IsPun(text, p + 4, ",")
     /\ IsKey(text, p + 5, "status") /\ IsLit(text, p + 7) /\ IsPun(text, p + 8, ",")
     /\ IsKey(text, p + 9, "error")
     /\ (IsLit(text, p + 11) \/ IsPun(text, p + 11, "null"))
     /\ IsPun(text, p + 12, ",")
     /\ IsKey(text, p + 13, "timestamp") /\ IsLit(text, p + 15)
     /\ IsPun(text, p + 16, "}")
  THEN Good([user |-> text[p + 3].s, status |-> text[p + 7].s,
             error |-> IF text[p + 11].q THEN Some(text[p + 11].s) ELSE None,
             timestamp |-> text[p + 15].s])
  ELSE Bad

RECURSIVE ParseRecItems(_, _, _)
ParseRecItems(text, p, acc) ==
  LET r == ParseRecord(text, p)
      n == p + RecordLen
  IN IF ~r.ok THEN Bad
     ELSE IF IsPun(text, n, "]")
          THEN IF n = Len(text) THEN Good(Append(acc, r.val)) ELSE Bad
     ELSE IF IsPun(text, n, ",") THEN ParseRecItems(text, n + 1, Append(acc, r.val))
     ELSE Bad

\* json.load of the failed file
load_failed(text) ==
  IF ~IsPun(text, 1, "[") THEN Bad
  ELSE IF IsPun(text, 2, "]") THEN (IF Len(text) = 2 THEN Good(<<>>) ELSE Bad)
  ELSE ParseRecItems(text, 2, <<>>)

\* ------------------------------------------------------------------ files
Absent == [exists |-> FALSE, text |-> <<>>]
File(text) == [exists |-> TRUE, text |-> text]

\* what a write that fails can leave behind: the old file (open failed), or
\* the new text cut short (open truncated the file, the dump stopped early)
Torn(old, text) ==
  {old, File(SubSeq(text, 1, Len(text) - 1))}


\* ---------------------------------------------------------- Progress Store
\* save_progress: every way the two writes can end.  ok is FALSE when a
\* write raised (the exception is caught and logged).
save_progress(fs, ff, sent, failed) ==
  {[sent |-> File(dump_sent(sent)), failed |-> File(dump_failed(failed)), ok |-> TRUE]}
  \cup {[sent |-> t, failed |-> ff, ok |-> FALSE] : t \in Torn(fs, dump_sent(sent))}
  \cup {[sent |-> File(dump_sent(sent)), failed |-> t, ok |-> FALSE] :
          t \in Torn(ff, dump_failed(failed))}

\* the outcomes the environment can still afford: a failed write is one error
Affordable(outcomes, b) == {o \in outcomes : o.ok \/ b > 0}
Spend(o, b) == IF o.ok THEN b ELSE b - 1

\* load_progress: the pair it returns.  A parse error leaves whatever was
\* assigned before it.
load_progress(fs, ff) ==
  LET s == load_sent(fs.text)
      f == load_failed(ff.text)
  IN IF fs.exists /\ ~s.ok THEN [sent |-> <<>>, failed |-> <<>>]
     ELSE LET sent == IF fs.exists THEN s.val ELSE <<>>
          IN IF ff.exists /\ ~f.ok THEN [sent |-> sent, failed |-> <<>>]
             ELSE [sent |-> sent, failed |-> IF ff.exists THEN f.val ELSE <<>>]

\* ------------------------------------------------------------------ state
VARIABLES
  users_arg,      \* the users argument of send_bulk_messages
  resume,         \* the resume argument
  max_retries,    \* self.config.max_retries
  users,          \* the working list (after the resume filter)
  pc,             \* position of send_bulk_messages
  i,              \* loop index of enumerate(users, 1)
  sent_users,     \* in-memory Sent list
  failed_users,   \* in-memory Failed/Skipped records
  stats,          \* self.stats
  rpc,            \* position of send_message_with_retry
  attempt,        \* loop variable of send_message_with_retry
  result,         \* the result dict of send_message_with_retry
  wait_time,      \* e.seconds of the FloodWaitError being handled
  file_sent,      \* data/sent_users.json
  file_failed,    \* data/failed_users.json
  budget,         \* errors the environment may still raise in this run
  calls,          \* history: calls made by the current send_message_with_retry
  invoked,        \* history: identifiers passed to send_message_with_retry
  delivered,      \* history: identifiers the client delivered the message to
  checkpoints,    \* history: the save_progress calls of this run
  loaded,         \* history: what load_progress returned at the start
  sleeps,         \* history: the inter-message sleeps (index slept after)
  signal,         \* history: the cancellation signal, if one arrived
  raised,         \* history: loop indices whose processing raised out of the call
  prior           \* history: the two files as the run found them

vars == <<users_arg, resume, max_retries, users, pc, i, sent_users,
          failed_users, stats, rpc, attempt, result, wait_time, file_sent,
          file_failed, budget, calls, invoked, delivered, checkpoints,
          loaded, sleeps, signal, raised, prior>>

policy == <<rpc, attempt, result, wait_time, calls>>
config == <<users_arg, resume, max_retries, prior>>
files == <<file_sent, file_failed>>
progress == <<sent_users, failed_users>>

\* -------------------------------------------------------------- helpers
Range(s) == {s[k] : k \in 1..Len(s)}

RECURSIVE SelectSeq2(_, _)
SelectSeq2(s, keep) ==
  IF s = <<>> THEN <<>>
  ELSE IF Head(s) \in keep THEN <<Head(s)>> \o SelectSeq2(Tail(s), keep)
  ELSE SelectSeq2(Tail(s), keep)

\* the filter without the users of the failed records
processed_users_sent_only(sent, failed) == Range(sent)

\* set(sent_users + [f['user'] for f in failed_users])
processed_users(sent, failed) ==
  Range(sent) \cup {failed[k].user : k \in 1..Len(failed)}

\* [user for user in users if user not in processed_users]
remaining(us, processed) == SelectSeq2(us, Range(us) \ processed)

Count(log, op) == Cardinality({k \in 1..Len(log) : log[k].op = op})

Call(op, arg) == [op |-> op, arg |-> arg]

\* ------------------------------------------------------------------- Init
ShortLists == UNION {[1..n -> Ids] : n \in 0..MaxUsers}
LongList(n) == [k \in 1..n |-> ToString(k)]
LongLists == {LongList(2 * save_every), LongList(MaxLong)}

Skipped(u, t) ==
  [user |-> u, status |-> "skipped", error |-> Some("User not found or invalid"),
   timestamp |-> isoformat(t)]
Failed(u, t) ==
  [user |-> u, status |-> "failed", error |-> Some("boom"), timestamp |-> isoformat(t)]

\* what an earlier run can have left on disk
PriorFiles ==
  { <<Absent, Absent>>,
    <<File(dump_sent(<<"a">>)), File(dump_failed(<<>>))>>,
    <<File(dump_sent(<<>>)), File(dump_failed(<<Skipped("b", 1)>>))>>,
    <<File(dump_sent(<<"b">>)), File(dump_failed(<<Failed("a", 2)>>))>>,
    <<File(dump_sent(<<"a">>)), File(<<Pun("[")>>)>>,
    <<File(<<>>), File(dump_failed(<<Skipped("b", 1)>>))>> }

\* the ones explored when the run does not read them
FoundWithoutResume ==
  { <<Absent, Absent>>,
    <<File(dump_sent(<<"b">>)), File(dump_failed(<<Failed("a", 2)>>))>> }

NoSignal == [kind |-> "none", sent |-> <<>>, failed |-> <<>>, inflight |-> None,
             ninvoked |-> 0]

InitRun ==
  /\ users = users_arg
  /\ pc = "start"
  /\ i = 0
  /\ sent_users = <<>>
  /\ failed_users = <<>>
  /\ stats = [sent |-> 0, failed |-> 0, skipped |-> 0, total |-> 0]
  /\ rpc = "idle"
  /\ attempt = 0
  /\ result = NewResult("", 0)
  /\ wait_time = 0
  /\ calls = <<>>
  /\ invoked = <<>>
  /\ delivered = <<>>
  /\ checkpoints = <<>>
  /\ loaded = [sent |-> <<>>, failed |-> <<>>]
  /\ sleeps = <<>>
  /\ signal = NoSignal
  /\ raised = {}
  /\ prior = [sent |-> file_sent, failed |-> file_failed]

InitShort ==
  /\ users_arg \in ShortLists
  /\ resume \in BOOLEAN
  /\ max_retries \in 1..MaxRetries
  /\ \E f \in PriorFiles :
       /\ file_sent = f[1] /\ file_failed = f[2]
       /\ resume \/ f \in FoundWithoutResume
  /\ budget = MaxFaults

InitLong ==
  /\ users_arg \in LongLists
  /\ resume = FALSE
  /\ max_retries \in 1..MaxRetries
  /\ file_sent = Absent /\ file_failed = Absent
  /\ budget = 1

Init == (InitShort \/ InitLong) /\ InitRun


\* ------------------------------------------------- send_message_with_retry
\* head of "for attempt in range(max_retries)": the next position when the
\* loop variable would become a
LoopHead(a) == IF a < max_retries THEN "resolve" ELSE "return"

\* the test one attempt early
IsLastAttempt_early(a) == a = max_retries - 2

\* "if attempt == self.config.max_retries - 1"
IsLastAttempt(a) == a = max_retries - 1

\* validate_user without the isinstance test
validate_user_any_entity(outcome) ==
  IF outcome \in {"user", "channel"} THEN Some("entity") ELSE None

\* validate_user: the entity for a User, nothing for any other entity or
\* any exception of get_entity
validate_user(outcome) == IF outcome = "user" THEN Some("entity") ELSE None

ResolveOutcomes == {"user", "channel", "flood", "error"}

\* validate_user without its try/except: an exception of get_entity reaches
\* the generic handler of send_message_with_retry
Resolve_errors_propagate ==
  /\ pc = "deliver" /\ rpc = "resolve"
  /\ \E outcome \in ResolveOutcomes :
       /\ (outcome # "user") => budget > 0
       /\ budget' = IF outcome = "user" THEN budget ELSE budget - 1
       /\ calls' = Append(calls, Call("resolve", outcome))
       /\ IF outcome = "user"
          THEN rpc' = "send" /\ UNCHANGED <<result, stats>>
          ELSE IF outcome = "channel"
          THEN /\ result' = [result EXCEPT !.error = Some("User not found or invalid"),
                                           !.status = "skipped"]
               /\ rpc' = "return"
               /\ UNCHANGED stats
          ELSE /\ result' = [result EXCEPT !.error = Some("boom")]
               /\ IF IsLastAttempt(attempt)
                  THEN stats' = [stats EXCEPT !.failed = @ + 1] /\ rpc' = "return"
                  ELSE rpc' = "retry_sleep" /\ UNCHANGED stats
  /\ UNCHANGED <<config, users, pc, i, progress, attempt, wait_time,
                 files, invoked, delivered, checkpoints, loaded, sleeps, signal,
                 raised>>

\* "user_entity = await self.validate_user(...)" and the test that follows
Resolve ==
  /\ pc = "deliver" /\ rpc = "resolve"
  /\ \E outcome \in ResolveOutcomes :
       LET user_entity == validate_user(outcome)
       IN /\ (outcome # "user") => budget > 0
          /\ budget' = IF outcome = "user" THEN budget ELSE budget - 1
          /\ calls' = Append(calls, Call("resolve", outcome))
          /\ IF user_entity = None
             THEN /\ result' = [result EXCEPT !.error = Some("User not found or invalid"),
                                              !.status = "skipped"]
                  /\ rpc' = "return"
             ELSE /\ rpc' = "send"
                  /\ UNCHANGED result
  /\ UNCHANGED <<config, users, pc, i, progress, stats, attempt, wait_time,
                 files, invoked, delivered, checkpoints, loaded, sleeps, signal, raised>>

\* client.send_message returns
SendOk ==
  /\ pc = "deliver" /\ rpc = "send"
  /\ calls' = Append(calls, Call("send", "ok"))
  /\ delivered' = Append(delivered, result.user)
  /\ result' = [result EXCEPT !.status = "sent", !.error = None]
  /\ stats' = [stats EXCEPT !.sent = @ + 1]
  /\ rpc' = "return"
  /\ UNCHANGED <<config, users, pc, i, progress, attempt, wait_time, files,
                 budget, invoked, checkpoints, loaded, sleeps, signal, raised>>

\* client.send_message raises FloodWaitError: "wait_time = e.seconds"
SendFlood ==
  /\ pc = "deliver" /\ rpc = "send"
  /\ budget > 0
  /\ budget' = budget - 1
  /\ \E w \in FloodWaits :
       /\ wait_time' = w
       /\ calls' = calls \o <<Call("send", "flood"), Call("demand", ToString(w))>>
  /\ rpc' = "flood_sleep"
  /\ UNCHANGED <<config, users, pc, i, progress, stats, attempt, result, files,
                 invoked, delivered, checkpoints, loaded, sleeps, signal, raised>>

\* the rate-limit wait that does not use up a turn of the loop
FloodSleep_same_attempt ==
  /\ pc = "deliver" /\ rpc = "flood_sleep"
  /\ calls' = Append(calls, Call("sleep", ToString(wait_time)))
  /\ rpc' = LoopHead(attempt)
  /\ UNCHANGED <<config, users, pc, i, progress, stats, attempt, result,
                 wait_time, files, budget, invoked, delivered, checkpoints,
                 loaded, sleeps, signal, raised>>

\* the wait of the generic retry in place of the demanded one
FloodSleep_fixed_delay ==
  /\ pc = "deliver" /\ rpc = "flood_sleep"
  /\ calls' = Append(calls, Call("sleep", ToString(retry_delay)))
  /\ attempt' = attempt + 1
  /\ rpc' = LoopHead(attempt + 1)
  /\ UNCHANGED <<config, users, pc, i, progress, stats, result, wait_time,
                 files, budget, invoked, delivered, checkpoints, loaded,
                 sleeps, signal, raised>>

\* "await asyncio.sleep(wait_time); continue"
FloodSleep ==
  /\ pc = "deliver" /\ rpc = "flood_sleep"
  /\ calls' = Append(calls, Call("sleep", ToString(wait_time)))
  /\ attempt' = attempt + 1
  /\ rpc' = LoopHead(attempt + 1)
  /\ UNCHANGED <<config, users, pc, i, progress, stats, result, wait_time,
                 files, budget, invoked, delivered, checkpoints, loaded,
                 sleeps, signal, raised>>

RefusalText(kind) ==
  IF kind \in {"UserPrivacyRestricted", "UserNotMutualContact"}
  THEN "Privacy settings prevent messaging"
  ELSE "Invalid peer or messaging forbidden"

Refusals == {"UserPrivacyRestricted", "UserNotMutualContact", "PeerIdInvalid",
             "ChatWriteForbidden"}

\* a privacy or peer error handled as a generic error: wait and retry
SendRefused_retried ==
  /\ pc = "deliver" /\ rpc = "send"
  /\ budget > 0
  /\ budget' = budget - 1
  /\ \E kind \in Refusals :
       /\ calls' = Append(calls, Call("send", kind))
       /\ result' = [result EXCEPT !.error = Some(RefusalText(kind))]
  /\ IF attempt = max_retries - 1
     THEN /\ stats' = [stats EXCEPT !.failed = @ + 1]
          /\ rpc' = "return"
     ELSE /\ rpc' = "retry_sleep"
          /\ UNCHANGED stats
  /\ UNCHANGED <<config, users, pc, i, progress, attempt, wait_time, files,
                 invoked, delivered, checkpoints, loaded, sleeps, signal, raised>>

\* client.send_message raises a privacy or peer error
SendRefused ==
  /\ pc = "deliver" /\ rpc = "send"
  /\ budget > 0
  /\ budget' = budget - 1
  /\ \E kind \in Refusals :
       /\ calls' = Append(calls, Call("send", kind))
       /\ result' = [result EXCEPT !.error = Some(RefusalText(kind)),
                                   !.status = "skipped"]
  /\ stats' = [stats EXCEPT !.skipped = @ + 1]
  /\ rpc' = "return"
  /\ UNCHANGED <<config, users, pc, i, progress, attempt, wait_time, files,
                 invoked, delivered, checkpoints, loaded, sleeps, signal, raised>>

\* client.send_message raises any other Exception
SendError ==
  /\ pc = "deliver" /\ rpc = "send"
  /\ budget > 0
  /\ budget' = budget - 1
  /\ calls' = Append(calls, Call("send", "error"))
  /\ result' = [result EXCEPT !.error = Some("boom")]
  /\ IF IsLastAttempt(attempt)
     THEN /\ stats' = [stats EXCEPT !.failed = @ + 1]
          /\ rpc' = "return"
     ELSE /\ rpc' = "retry_sleep"
          /\ UNCHANGED stats
  /\ UNCHANGED <<config, users, pc, i, progress, attempt, wait_time, files,
                 invoked, delivered, checkpoints, loaded, sleeps, signal, raised>>

\* "await asyncio.sleep(5)" and the next turn of the loop
RetrySleep ==
  /\ pc = "deliver" /\ rpc = "retry_sleep"
  /\ calls' = Append(calls, Call("sleep", ToString(retry_delay)))
  /\ attempt' = attempt + 1
  /\ rpc' = LoopHead(attempt + 1)
  /\ UNCHANGED <<config, users, pc, i, progress, stats, result, wait_time,
                 files, budget, invoked, delivered, checkpoints, loaded,
                 sleeps, signal, raised>>


\* ------------------------------------------------------ send_bulk_messages
Checkpoint(at, sent, failed, ok) ==
  [at |-> at, sent |-> sent, failed |-> failed, ok |-> ok]

\* the head of send_bulk_messages, up to the loop
Start ==
  /\ pc = "start"
  /\ LET got == IF resume THEN load_progress(file_sent, file_failed)
                ELSE [sent |-> <<>>, failed |-> <<>>]
         rest == IF resume
                 THEN remaining(users, processed_users(got.sent, got.failed))
                 ELSE users
     IN /\ loaded' = got
        /\ sent_users' = got.sent
        /\ failed_users' = got.failed
        /\ users' = rest
        /\ stats' = [stats EXCEPT !.total = Len(rest)]
        /\ pc' = IF rest = <<>> THEN "done" ELSE "next"
  /\ UNCHANGED <<config, i, policy, files, budget, invoked, delivered,
                 checkpoints, sleeps, signal, raised>>

\* the loop walking the list from its end
Invoke_from_end ==
  /\ pc = "next" /\ i < Len(users)
  /\ i' = i + 1
  /\ invoked' = Append(invoked, users[Len(users) - i])
  /\ result' = NewResult(users[Len(users) - i], Len(invoked) + 1)
  /\ attempt' = 0
  /\ calls' = <<>>
  /\ rpc' = LoopHead(0)
  /\ pc' = "deliver"
  /\ wait_time' = 0
  /\ UNCHANGED <<config, users, progress, stats, files, budget,
                 delivered, checkpoints, loaded, sleeps, signal, raised>>

\* the next turn of "for i, user in enumerate(users, 1)": the call of
\* send_message_with_retry
Invoke ==
  /\ pc = "next" /\ i < Len(users)
  /\ i' = i + 1
  /\ invoked' = Append(invoked, users[i + 1])
  /\ result' = NewResult(users[i + 1], Len(invoked) + 1)
  /\ attempt' = 0
  /\ calls' = <<>>
  /\ rpc' = LoopHead(0)
  /\ pc' = "deliver"
  /\ wait_time' = 0
  /\ UNCHANGED <<config, users, progress, stats, files, budget,
                 delivered, checkpoints, loaded, sleeps, signal, raised>>

\* the record put at the head of the list
route_failed_at_head(res, failed) ==
  IF res.status \in {"failed", "skipped"} THEN <<res>> \o failed ELSE failed

\* "if result['status'] == 'sent' ... elif ... in ['failed', 'skipped']"
route_sent(res, sent) ==
  IF res.status = "sent" THEN Append(sent, res.user) ELSE sent

route_failed(res, failed) ==
  IF res.status \in {"failed", "skipped"} THEN Append(failed, res) ELSE failed

\* the test on the zero-based index
save_due_zero_based(n) == (n - 1) % save_every = 0

\* "if i % 10 == 0"
save_due(n) == n % save_every = 0

\* the delay taken after the last recipient too
Route_always_delays ==
  /\ pc = "deliver" /\ rpc = "return"
  /\ sent_users' = route_sent(result, sent_users)
  /\ failed_users' = route_failed(result, failed_users)
  /\ IF save_due(i)
     THEN \E o \in Affordable(save_progress(file_sent, file_failed,
                                            sent_users', failed_users'), budget) :
            /\ file_sent' = o.sent
            /\ file_failed' = o.failed
            /\ budget' = Spend(o, budget)
            /\ checkpoints' = Append(checkpoints,
                                Checkpoint(i, sent_users', failed_users', o.ok))
     ELSE UNCHANGED <<files, checkpoints, budget>>
  /\ rpc' = "idle"
  /\ pc' = "delay"
  /\ UNCHANGED <<config, users, i, stats, attempt, result, wait_time,
                 calls, invoked, delivered, loaded, sleeps, signal, raised>>

\* send_message_with_retry returned: route the outcome, save when due
Route ==
  /\ pc = "deliver" /\ rpc = "return"
  /\ sent_users' = route_sent(result, sent_users)
  /\ failed_users' = route_failed(result, failed_users)
  /\ IF save_due(i)
     THEN \E o \in Affordable(save_progress(file_sent, file_failed,
                                            sent_users', failed_users'), budget) :
            /\ file_sent' = o.sent
            /\ file_failed' = o.failed
            /\ budget' = Spend(o, budget)
            /\ checkpoints' = Append(checkpoints,
                                Checkpoint(i, sent_users', failed_users', o.ok))
     ELSE UNCHANGED <<files, checkpoints, budget>>
  /\ rpc' = "idle"
  /\ pc' = IF i < Len(users) THEN "delay" ELSE "next"
  /\ UNCHANGED <<config, users, i, stats, attempt, result, wait_time,
                 calls, invoked, delivered, loaded, sleeps, signal, raised>>

\* "await asyncio.sleep(self.config.message_delay)"
Delay ==
  /\ pc = "delay"
  /\ sleeps' = Append(sleeps, [after |-> i, seconds |-> message_delay])
  /\ pc' = "next"
  /\ UNCHANGED <<config, users, i, progress, stats, policy, files, budget,
                 invoked, delivered, checkpoints, loaded, signal, raised>>

\* the loop is over: "Final save and statistics"
FinalSave ==
  /\ pc = "next" /\ i = Len(users)
  /\ \E o \in Affordable(save_progress(file_sent, file_failed,
                                       sent_users, failed_users), budget) :
       /\ file_sent' = o.sent
       /\ file_failed' = o.failed
       /\ budget' = Spend(o, budget)
       /\ checkpoints' = Append(checkpoints,
                           Checkpoint(i, sent_users, failed_users, o.ok))
  /\ pc' = "done"
  /\ UNCHANGED <<config, users, i, progress, stats, policy, invoked,
                 delivered, loaded, sleeps, signal, raised>>

\* the exception leaving the loop: no handler, no final save
Unexpected_propagates ==
  /\ pc = "deliver" /\ rpc = "flood_sleep"
  /\ budget > 0
  /\ budget' = budget - 1
  /\ raised' = raised \cup {i}
  /\ rpc' = "idle"
  /\ pc' = "aborted"
  /\ UNCHANGED <<config, users, i, progress, stats, attempt, result, wait_time,
                 files, calls, invoked, delivered, checkpoints, loaded,
                 sleeps, signal>>

\* an exception that no handler of send_message_with_retry catches (raised
\* inside the FloodWaitError handler): "except Exception ... continue"
Unexpected ==
  /\ pc = "deliver" /\ rpc = "flood_sleep"
  /\ budget > 0
  /\ budget' = budget - 1
  /\ raised' = raised \cup {i}
  /\ rpc' = "idle"
  /\ pc' = "next"
  /\ UNCHANGED <<config, users, i, progress, stats, attempt, result, wait_time,
                 files, calls, invoked, delivered, checkpoints, loaded,
                 sleeps, signal>>

Signal(kind) ==
  [kind |-> kind, sent |-> sent_users, failed |-> failed_users,
   inflight |-> IF pc = "deliver" THEN Some(users[i]) ELSE None,
   ninvoked |-> Len(invoked)]

\* KeyboardInterrupt raised inside the try block of the loop: the handler
\* saves and breaks, then the final save runs
Interrupt ==
  /\ pc \in {"deliver", "delay"}
  /\ signal' = Signal("interrupt")
  /\ \E o1 \in Affordable(save_progress(file_sent, file_failed,
                                        sent_users, failed_users), budget) :
       \E o2 \in Affordable(save_progress(o1.sent, o1.failed,
                                          sent_users, failed_users),
                            Spend(o1, budget)) :
         /\ file_sent' = o2.sent
         /\ file_failed' = o2.failed
         /\ budget' = Spend(o2, Spend(o1, budget))
         /\ checkpoints' = checkpoints
                \o <<Checkpoint(i, sent_users, failed_users, o1.ok),
                     Checkpoint(i, sent_users, failed_users, o2.ok)>>
  /\ rpc' = "idle"
  /\ pc' = "done"
  /\ UNCHANGED <<config, users, i, progress, stats, attempt, result, wait_time,
                 calls, invoked, delivered, loaded, sleeps, raised>>

\* the interrupt reaches the coroutine as a cancellation of its task: the
\* pending await raises CancelledError, which neither "except
\* KeyboardInterrupt" nor "except Exception" catches
Cancel ==
  /\ \/ pc = "deliver" /\ rpc \in {"resolve", "send", "flood_sleep", "retry_sleep"}
     \/ pc = "delay"
  /\ signal' = Signal("cancel")
  /\ rpc' = "idle"
  /\ pc' = "aborted"
  /\ UNCHANGED <<config, users, i, progress, stats, attempt, result, wait_time,
                 files, budget, calls, invoked, delivered, checkpoints, loaded,
                 sleeps, raised>>

Next ==
  \/ Start
  \/ Invoke
  \/ Resolve
  \/ SendOk
  \/ SendFlood
  \/ FloodSleep
  \/ SendRefused
  \/ SendError
  \/ RetrySleep
  \/ Route
  \/ Delay
  \/ FinalSave
  \/ Unexpected
  \/ Interrupt
  \/ Cancel

Spec == Init /\ [][Next]_vars


\* ================================================================= claims
Last(s) == s[Len(s)]

FailedIds(failed) == {failed[k].user : k \in 1..Len(failed)}

Disjoint(sent, failed) == Range(sent) \cap FailedIds(failed) = {}

\* C1: at every point of a run and in every checkpoint it writes, no
\* identifier is both in the Sent list and the user of a Failed/Skipped
\* record, whatever the input list (repeated identifiers included).
C1_MutualExclusion ==
  /\ Disjoint(sent_users, failed_users)
  /\ \A k \in 1..Len(checkpoints) :
       Disjoint(checkpoints[k].sent, checkpoints[k].failed)

LoadedIds == Range(loaded.sent) \cup FailedIds(loaded.failed)

\* C2: with resume on, send_message_with_retry is never invoked (so no
\* resolve or send call is made) for an identifier of the loaded Sent list
\* or of a loaded Failed/Skipped record.
C2_ResumeNeverReinvokes ==
  resume => /\ Range(invoked) \cap LoadedIds = {}
            /\ Range(delivered) \cap LoadedIds = {}
            /\ (pc = "deliver" => result.user \notin LoadedIds)

C2_Witness ==
  /\ resume /\ pc = "done" /\ signal.kind = "none"
  /\ invoked # <<>>
  /\ Range(users_arg) \cap FailedIds(loaded.failed) # {}

Raised(k) == calls[k].op \in {"resolve", "send"} /\ calls[k].arg \notin {"user", "channel", "ok"}

OnlyRateLimits ==
  /\ \E k \in 1..Len(calls) : Raised(k)
  /\ \A k \in 1..Len(calls) : Raised(k) => calls[k] = Call("send", "flood")

\* C3: send_message_with_retry does not return status failed when the only
\* errors raised during the call were rate-limit signals.
C3_RateLimitNeverFailed ==
  (pc = "deliver" /\ rpc = "return" /\ OnlyRateLimits) => result.status # "failed"

Sends == Count(calls, "send")
Resolves == Count(calls, "resolve")

AlwaysGenericError ==
  /\ Resolves >= 1
  /\ \A k \in 1..Len(calls) :
       /\ calls[k].op = "resolve" => calls[k].arg = "user"
       /\ calls[k].op = "send" => calls[k].arg = "error"

\* C4: for a resolvable recipient whose every send raises a generic error,
\* send_message_with_retry makes exactly max_retries send attempts and then
\* returns status failed.
C4_ExactlyNAttempts ==
  (pc = "deliver" /\ AlwaysGenericError) =>
     /\ Sends <= max_retries
     /\ rpc = "return" => (Sends = max_retries /\ result.status = "failed")
     /\ Sends = max_retries => rpc = "return"

C4_Witness ==
  /\ pc = "deliver" /\ rpc = "return" /\ AlwaysGenericError
  /\ max_retries = MaxRetries /\ Sends = MaxRetries
  /\ result.status = "failed"

RefusedAt(k) == calls[k].op = "send" /\ calls[k].arg \in Refusals

\* C5: a privacy or peer error of a send makes send_message_with_retry
\* return status skipped at once, with no further resolve, send or sleep;
\* on the first attempt that is after exactly one resolve and one send.
C5_RefusalSkipsAtOnce ==
  \A k \in 1..Len(calls) :
    RefusedAt(k) =>
      /\ k = Len(calls)
      /\ rpc \in {"return", "idle"}
      /\ result.status = "skipped"
      /\ attempt = 0 => (Sends = 1 /\ Resolves = 1)

C5_Witness ==
  /\ pc = "deliver" /\ rpc = "return"
  /\ calls # <<>> /\ RefusedAt(Len(calls))
  /\ attempt = 0 /\ max_retries > 1

NothingAt(k) == calls[k].op = "resolve" /\ calls[k].arg # "user"

Routed == IF pc = "deliver" THEN i - 1 ELSE i

\* calls of send_message_with_retry that have come to their end
Completed == IF pc = "deliver" /\ rpc # "return" THEN Len(invoked) - 1 ELSE Len(invoked)

AllSucceeded ==
  /\ ~resume
  /\ signal.kind = "none"
  /\ Len(delivered) = Completed

\* C7: with resume off and every delivery succeeding, save_progress is
\* called after the 10th, 20th, ... recipient and once more after the last
\* one, and the Sent list saved after recipient k has exactly k entries.
C7_CheckpointSchedule ==
  (AllSucceeded /\ pc # "start") =>
    LET m == Routed \div save_every
        n == Len(users)
        final == pc = "done" /\ n > 0
    IN /\ Len(checkpoints) = m + (IF final THEN 1 ELSE 0)
       /\ \A k \in 1..m :
            /\ checkpoints[k].at = k * save_every
            /\ checkpoints[k].sent = SubSeq(users, 1, k * save_every)
            /\ Len(checkpoints[k].sent) = k * save_every
       /\ final => /\ Last(checkpoints).at = n
                   /\ Len(Last(checkpoints).sent) = n
                   /\ Last(checkpoints).ok =>
                        file_sent = File(dump_sent(SubSeq(users, 1, n)))

C7_Witness ==
  /\ AllSucceeded /\ pc = "done"
  /\ Len(users) = MaxLong
  /\ Len(checkpoints) = 3
  /\ checkpoints[1].at = 10 /\ checkpoints[2].at = 20 /\ checkpoints[3].at = MaxLong
  /\ \A k \in 1..3 : checkpoints[k].ok

InMemory == [sent |-> sent_users, failed |-> failed_users]

\* C8: once a cancellation signal has arrived, the run has saved the
\* collections as they were at the signal, it invokes delivery for no
\* further recipient, and the recipient in flight at the signal is in
\* neither collection.
C8_CancelPersistsAndStops ==
  signal.kind # "none" =>
    /\ checkpoints # <<>>
    /\ Last(checkpoints).sent = signal.sent
    /\ Last(checkpoints).failed = signal.failed
    /\ InMemory = [sent |-> signal.sent, failed |-> signal.failed]
    /\ Len(invoked) = signal.ninvoked
    /\ signal.inflight # None =>
         signal.inflight[1] \notin Range(sent_users) \cup FailedIds(failed_users)

SavedSent == IF checkpoints = <<>> THEN <<>> ELSE Last(checkpoints).sent

\* C9: no run stops on a cancellation with a recipient the client has
\* delivered the message to absent from the saved Sent collection.
C9_NoDeliveredUnrecorded ==
  (signal.kind # "none" /\ pc \in {"done", "aborted"}) =>
     Range(delivered) \subseteq Range(SavedSent)

SavedFiles ==
  CHOOSE o \in save_progress(file_sent, file_failed, sent_users, failed_users) : o.ok

\* C10: save_progress followed by load_progress, with no storage failure,
\* returns the same Sent identifiers and the same Failed/Skipped records in
\* the same order.
C10_RoundTrip ==
  /\ rpc = "idle" => load_progress(SavedFiles.sent, SavedFiles.failed) = InMemory
  /\ (checkpoints # <<>> /\ Last(checkpoints).ok) =>
        load_progress(file_sent, file_failed)
          = [sent |-> Last(checkpoints).sent, failed |-> Last(checkpoints).failed]

C10_Witness ==
  /\ pc = "done"
  /\ checkpoints # <<>> /\ Last(checkpoints).ok
  /\ Len(sent_users) >= 2
  /\ sent_users[1] # sent_users[2]
  /\ Len(failed_users) >= 1
  /\ load_progress(file_sent, file_failed) = InMemory


Empty == [sent |-> <<>>, failed |-> <<>>]

Unreadable(f, parsed) == f.exists /\ ~parsed.ok

\* C11: load_progress returns empty collections for both Sent and
\* Failed/Skipped whenever either persisted collection fails to parse, also
\* when the Sent file was read before the Failed/Skipped file failed.
C11_LoadFailureGivesEmpty ==
  (resume /\ pc # "start"
     /\ (\/ Unreadable(prior.sent, load_sent(prior.sent.text))
         \/ Unreadable(prior.failed, load_failed(prior.failed.text))))
  => loaded = Empty

\* the pairs of files that are one whole checkpoint, or what the run found
Snapshots ==
  {<<prior.sent, prior.failed>>}
  \cup {<<File(dump_sent(checkpoints[k].sent)), File(dump_failed(checkpoints[k].failed))>> :
          k \in 1..Len(checkpoints)}

\* the Sent file of checkpoint k beside the Failed/Skipped file of an
\* earlier checkpoint (of this run, or the one the run found on disk)
TornAt(k) ==
  /\ file_sent = File(dump_sent(checkpoints[k].sent))
  /\ \/ \E j \in 1..(k - 1) : file_failed = File(dump_failed(checkpoints[j].failed))
     \/ /\ file_failed = prior.failed
        /\ prior.sent.exists /\ load_sent(prior.sent.text).ok
        /\ prior.failed.exists /\ load_failed(prior.failed.text).ok
  /\ <<file_sent, file_failed>> \notin Snapshots

\* C12: durable storage never holds the Sent collection of one checkpoint
\* together with the Failed/Skipped collection of an earlier checkpoint.
C12_SaveIsAtomic == \A k \in 1..Len(checkpoints) : ~TornAt(k)


NotLoaded(u) == u \notin LoadedIds

\* the identifiers of the input that remain to be processed, in input order
Remainder == IF resume THEN SelectSeq(users_arg, NotLoaded) ELSE users_arg

\* C13: delivery is invoked for the remaining identifiers strictly in
\* input-list order, one at a time: the invocations so far are the first i
\* remaining identifiers, and the one in progress is for the i-th.
C13_InputOrder ==
  pc # "start" =>
    /\ Len(invoked) = i
    /\ invoked = SubSeq(Remainder, 1, i)
    /\ (rpc # "idle") = (pc = "deliver")
    /\ pc = "deliver" => result.user = Remainder[i]
    /\ Len(delivered) <= i
    /\ \A k \in 1..Len(sleeps) : sleeps[k].after < i \/ (sleeps[k].after = i /\ pc # "deliver")

C13_Witness ==
  /\ pc = "done" /\ signal.kind = "none"
  /\ Len(invoked) = 2 /\ invoked[1] # invoked[2]
  /\ Len(delivered) = 1 /\ Len(sleeps) = 1


IsPrefix(a, b) == Len(a) <= Len(b) /\ SubSeq(b, 1, Len(a)) = a

\* C14: in a resume run the loaded Sent list and the loaded Failed/Skipped
\* records stay, unchanged and in place, at the head of the in-memory
\* collections and of every checkpoint; new outcomes are only appended and
\* no loaded Failed/Skipped recipient is processed again.
C14_AppendOnly ==
  (resume /\ pc # "start") =>
    /\ IsPrefix(loaded.sent, sent_users)
    /\ IsPrefix(loaded.failed, failed_users)
    /\ \A k \in 1..Len(checkpoints) :
         /\ IsPrefix(loaded.sent, checkpoints[k].sent)
         /\ IsPrefix(loaded.failed, checkpoints[k].failed)
         /\ k > 1 => /\ IsPrefix(checkpoints[k - 1].sent, checkpoints[k].sent)
                     /\ IsPrefix(checkpoints[k - 1].failed, checkpoints[k].failed)
    /\ Range(invoked) \cap FailedIds(loaded.failed) = {}

C14_Witness ==
  /\ resume /\ pc = "done" /\ signal.kind = "none"
  /\ loaded.failed # <<>>
  /\ Len(failed_users) > Len(loaded.failed)
  /\ checkpoints # <<>> /\ Last(checkpoints).failed = failed_users


Occurrences(seq, u) == Cardinality({k \in 1..Len(seq) : seq[k] = u})

\* outcomes this run has recorded for identifier u
Recorded(u) ==
  (Occurrences(sent_users, u) - Occurrences(loaded.sent, u))
  + Cardinality({k \in (Len(loaded.failed) + 1)..Len(failed_users) :
                   failed_users[k].user = u})

\* positions of u processed so far whose processing did not raise
Returned(u) == Cardinality({j \in 1..Routed : users[j] = u /\ j \notin raised})

C16_WaitBeforeNextAttempt ==
  \A k \in 1..Len(calls) :
    calls[k].op = "demand" =>
      /\ k > 1 /\ calls[k - 1] = Call("send", "flood")
      /\ IF k = Len(calls)
         THEN rpc \in {"flood_sleep", "idle"}
         ELSE calls[k + 1] = Call("sleep", calls[k].arg)

C16_Witness ==
  /\ pc = "deliver" /\ rpc = "send"
  /\ Len(calls) = 5
  /\ calls[3] = Call("demand", "7") /\ calls[4] = Call("sleep", "7")
  /\ calls[5] = Call("resolve", "user")

\* the recipients after which the driver has to have slept by now
SleptAfter ==
  {j \in 1..i : /\ j \notin raised
                /\ j < Len(users)
                /\ (j < i \/ pc \in {"next", "done"})}

StatusCount(status) ==
  Cardinality({k \in 1..Len(failed_users) : failed_users[k].status = status})

\* C18: at the end of a run with resume off and no cancellation the
\* counters sent, skipped and failed equal the number of identifiers in
\* Sent, of skipped records and of failed records.
C18_StatsMatchProgress ==
  (pc = "done" /\ ~resume /\ signal.kind = "none") =>
    /\ stats.sent = Len(sent_users)
    /\ stats.skipped = StatusCount("skipped")
    /\ stats.failed = StatusCount("failed")

\* C19: send_message_with_retry makes at most max_retries resolve calls and
\* at most max_retries send calls, is never stuck before it returns, and
\* returns one of the outcomes sent, skipped, failed.
C19_BoundedAttempts ==
  pc = "deliver" =>
    /\ Resolves <= max_retries
    /\ Sends <= max_retries
    /\ attempt <= max_retries
    /\ Len(calls) <= 4 * max_retries
    /\ rpc = "return" => result.status \in {"sent", "skipped", "failed"}
    /\ rpc # "return" =>
         /\ rpc \in {"resolve", "send", "flood_sleep", "retry_sleep"}
         /\ attempt < max_retries

C19_Witness ==
  /\ pc = "deliver" /\ rpc = "return"
  /\ max_retries = MaxRetries /\ Sends = MaxRetries /\ Resolves = MaxRetries
  /\ \E k \in 1..Len(calls) : calls[k] = Call("send", "flood")
  /\ \E k \in 1..Len(calls) : calls[k] = Call("send", "error")

ResolveRaisedAt(k) == calls[k].op = "resolve" /\ calls[k].arg \in {"flood", "error"}

====
